---- MODULE Spec2Model ----
(***************************************************************************)
(* State machine of the Letterhead component                               *)
(* (src/components/letterhead.tsx): the six useState cells, the            *)
(* module-level memoized pdf.js import, and one asynchronous render        *)
(* pipeline per accepted file selection.  Every continuation between two   *)
(* awaits is one atomic action (the UI thread is single-threaded).         *)
(*                                                                         *)
(* Numbers: zoomLevel is kept in thousandths (1000 = 1.0), so that the     *)
(* rounding error of a double addition (at most MaxFloatErr thousandths    *)
(* here, far more than one ulp) and the rounding of toFixed(2) are both    *)
(* visible.  A nullable value is a sequence: <<>> is null, <<v>> is v.     *)
(***************************************************************************)
EXTENDS Integers, Sequences, FiniteSets, TLC

VARIABLES
  renderedImage,  \* useState<string | null>
  pdfName,        \* useState<string | null>
  isRendering,    \* useState(false)
  renderError,    \* useState<string | null>
  pageCount,      \* useState<number | null>
  zoomLevel,      \* useState(1.0), in thousandths
  cachedPdfjs,    \* the module-level memoized import promise
  tasks,          \* the handleFileChange invocations suspended at an await
  selections,     \* how many file selections were handled so far
  envFaulty,      \* whether the platform (module fetch, canvas) may fail now
  lastOp          \* history: the handler or continuation that ran last

vars == <<renderedImage, pdfName, isRendering, renderError, pageCount,
          zoomLevel, cachedPdfjs, tasks, selections, envFaulty, lastOp>>

uiState == <<renderedImage, pdfName, isRendering, renderError, pageCount, zoomLevel>>

----------------------------------------------------------------------------
(* Bounds of the model *)

MaxSelections == 2
MaxFloatErr == 1

(* Program constants, in thousandths *)
ZoomDefault == 1000
ZoomMin == 800
ZoomMax == 1800
ZoomStep == 100

Null == <<>>
Some(v) == <<v>>

PdfMime == "application/pdf"
InvalidTypeMessage == "Please select a PDF file."
FallbackMessage == "Something went wrong while rendering the PDF."
CanvasContextMessage == "Unable to create canvas context for preview."

----------------------------------------------------------------------------
(* Thrown values and files *)

Err(msg) == [isError |-> TRUE, message |-> msg]
NonErr == [isError |-> FALSE, message |-> "rejected"]
NoThrow == [isError |-> FALSE, message |-> "-"]

\* error instanceof Error ? error.message : "Something went wrong ..."
ErrorMessage(e) == IF e.isError THEN e.message ELSE FallbackMessage

File(n, ty, pages, at, thrown) ==
  [name |-> n, type |-> ty, numPages |-> pages, failsAt |-> at, throws |-> thrown]

\* The selections the file picker can deliver.  failsAt names the awaited
\* call that rejects for this file ("none": every call on it succeeds) and
\* throws the value it rejects with.
ValidPdfs ==
  { File("a.pdf", PdfMime, 1, "none", NoThrow),
    File("b.pdf", PdfMime, 2, "none", NoThrow) }

DefectivePdfs ==
  { File("unreadable.pdf", PdfMime, 1, "read", Err("The file could not be read.")),
    File("corrupt.pdf", PdfMime, 1, "open", NonErr),
    File("empty.pdf", PdfMime, 0, "page", Err("Invalid page request.")),
    File("blank.pdf", PdfMime, 1, "render", Err("")) }

NonPdfs == { File("logo.png", "image/png", 0, "none", NoThrow) }

Files == ValidPdfs \cup DefectivePdfs \cup NonPdfs

ImportError == Err("Failed to fetch dynamically imported module")

\* canvas.toDataURL("image/jpeg", 1.0) of the page drawn from file f
DataUrl(f) == <<"data:image/jpeg", f.name>>

----------------------------------------------------------------------------
(* Zoom arithmetic *)

Min(a, b) == IF a < b THEN a ELSE b
Max(a, b) == IF a > b THEN a ELSE b

\* the doubles a + b can evaluate to
FloatSum(a, b) == { a + b + e : e \in (0 - MaxFloatErr)..MaxFloatErr }

\* Number(next.toFixed(2)): round to the nearest hundredth
ToFixed2(x) == ((x + 5) \div 10) * 10

----------------------------------------------------------------------------
NoCache == [state |-> "null", reason |-> NoThrow]
Pending == [state |-> "pending", reason |-> NoThrow]
Fulfilled == [state |-> "fulfilled", reason |-> NoThrow]
Rejected(e) == [state |-> "rejected", reason |-> e]

\* history record: the operation, the pipeline it ran for (or Null), whether it
\* succeeded, and for a zoom handler the zoomLevel it started from (else 0)
Op(name, t, ok, z) == [op |-> name, task |-> t, ok |-> ok, prevZoom |-> z]

Init ==
  /\ renderedImage = Null
  /\ pdfName = Null
  /\ isRendering = FALSE
  /\ renderError = Null
  /\ pageCount = Null
  /\ zoomLevel = ZoomDefault
  /\ cachedPdfjs = NoCache
  /\ tasks = {}
  /\ selections = 0
  /\ envFaulty \in BOOLEAN
  /\ lastOp = Op("init", Null, TRUE, 0)


----------------------------------------------------------------------------
(* File selection: handleFileChange up to its first await *)

Task(id, f) ==
  [id |-> id, file |-> f, pc |-> "read",
   alone |-> tasks = {},            \* history: no other selection since it began
   healthy |-> ~envFaulty,          \* history: the platform was working by then
   prevImage |-> renderedImage]     \* history: renderedImage when it was accepted

\* every pipeline in flight has now seen another selection
Overlapped(ts) == { [t EXCEPT !.alone = FALSE] : t \in ts }

\* if (!file) return
HandleNoFile ==
  /\ lastOp' = Op("noFile", Null, TRUE, 0)
  /\ UNCHANGED <<uiState, cachedPdfjs, tasks, selections, envFaulty>>

\* RejectNonPdf without setRenderedImage(null): the old preview survives
RejectNonPdf_KeepsImage(f) ==
  /\ f.type # PdfMime
  /\ selections < MaxSelections
  /\ selections' = selections + 1
  /\ renderError' = Some(InvalidTypeMessage)
  /\ pdfName' = Null
  /\ pageCount' = Null
  /\ tasks' = Overlapped(tasks)
  /\ lastOp' = Op("nonPdf", Null, FALSE, 0)
  /\ UNCHANGED <<renderedImage, isRendering, zoomLevel, cachedPdfjs, envFaulty>>

\* if (file.type !== "application/pdf") { ...; return }
RejectNonPdf(f) ==
  /\ f.type # PdfMime
  /\ selections < MaxSelections
  /\ selections' = selections + 1
  /\ renderError' = Some(InvalidTypeMessage)
  /\ renderedImage' = Null
  /\ pdfName' = Null
  /\ pageCount' = Null
  /\ tasks' = Overlapped(tasks)
  /\ lastOp' = Op("nonPdf", Null, FALSE, 0)
  /\ UNCHANGED <<isRendering, zoomLevel, cachedPdfjs, envFaulty>>

\* AcceptPdf without setZoomLevel(1.0) and setRenderError(null)
AcceptPdf_NoReset(f) ==
  /\ f.type = PdfMime
  /\ selections < MaxSelections
  /\ selections' = selections + 1
  /\ pdfName' = Some(f.name)
  /\ isRendering' = TRUE
  /\ tasks' = Overlapped(tasks) \cup { Task(selections + 1, f) }
  /\ lastOp' = Op("accept", Some(Task(selections + 1, f)), TRUE, 0)
  /\ UNCHANGED <<renderedImage, pageCount, zoomLevel, renderError,
                 cachedPdfjs, envFaulty>>

\* AcceptPdf that cancels the renders in flight before starting its own
AcceptPdf_AbortsPrevious(f) ==
  /\ f.type = PdfMime
  /\ selections < MaxSelections
  /\ selections' = selections + 1
  /\ pdfName' = Some(f.name)
  /\ zoomLevel' = ZoomDefault
  /\ renderError' = Null
  /\ isRendering' = TRUE
  /\ tasks' = { Task(selections + 1, f) }
  /\ lastOp' = Op("accept", Some(Task(selections + 1, f)), TRUE, 0)
  /\ UNCHANGED <<renderedImage, pageCount, cachedPdfjs, envFaulty>>

\* setPdfName; setZoomLevel(1.0); setRenderError(null); setIsRendering(true);
\* then file.arrayBuffer() is called and the handler suspends
AcceptPdf(f) ==
  /\ f.type = PdfMime
  /\ selections < MaxSelections
  /\ selections' = selections + 1
  /\ pdfName' = Some(f.name)
  /\ zoomLevel' = ZoomDefault
  /\ renderError' = Null
  /\ isRendering' = TRUE
  /\ tasks' = Overlapped(tasks) \cup { Task(selections + 1, f) }
  /\ lastOp' = Op("accept", Some(Task(selections + 1, f)), TRUE, 0)
  /\ UNCHANGED <<renderedImage, pageCount, cachedPdfjs, envFaulty>>

HandleFileChange == \E f \in Files : RejectNonPdf(f) \/ AcceptPdf(f)

----------------------------------------------------------------------------
(* The continuations of handleFileChange *)

Advance(t, next) == (tasks \ {t}) \cup { [t EXCEPT !.pc = next] }

\* catch (error) { ... } finally { setIsRendering(false) }
Catch(t, e) ==
  /\ renderedImage' = Null
  /\ pageCount' = Null
  /\ renderError' = Some(ErrorMessage(e))
  /\ isRendering' = FALSE
  /\ tasks' = tasks \ {t}
  /\ lastOp' = Op("settled", Some(t), FALSE, 0)
  /\ UNCHANGED <<pdfName, zoomLevel, selections, envFaulty>>

\* function loadPdfjs(): if (!cachedPdfjs) cachedPdfjs = import(...).then(...)
LoadPdfjs == IF cachedPdfjs.state = "null" THEN Pending ELSE cachedPdfjs

\* await file.arrayBuffer() settles; on success loadPdfjs() is called
AfterArrayBuffer(t) ==
  /\ t.pc = "read"
  /\ IF t.file.failsAt = "read"
       THEN Catch(t, t.file.throws) /\ UNCHANGED cachedPdfjs
       ELSE /\ cachedPdfjs' = LoadPdfjs
            /\ tasks' = Advance(t, "load")
            /\ lastOp' = Op("advance", Some(t), TRUE, 0)
            /\ UNCHANGED <<uiState, selections, envFaulty>>

\* the dynamic import settles: it can fail only while the platform is faulty
ImportSettles ==
  /\ cachedPdfjs.state = "pending"
  /\ \E ok \in (IF envFaulty THEN BOOLEAN ELSE {TRUE}) :
       cachedPdfjs' = IF ok THEN Fulfilled ELSE Rejected(ImportError)
  /\ lastOp' = Op("import", Null, TRUE, 0)
  /\ UNCHANGED <<uiState, tasks, selections, envFaulty>>

\* await loadPdfjs() settles; on success getDocument({data}) is called
AfterLoadPdfjs(t) ==
  /\ t.pc = "load"
  /\ cachedPdfjs.state \in {"fulfilled", "rejected"}
  /\ IF cachedPdfjs.state = "rejected"
       THEN Catch(t, cachedPdfjs.reason)
       ELSE /\ tasks' = Advance(t, "open")
            /\ lastOp' = Op("advance", Some(t), TRUE, 0)
            /\ UNCHANGED <<uiState, selections, envFaulty>>
  /\ UNCHANGED cachedPdfjs

\* await loadingTask.promise settles; on success setPageCount(pdf.numPages)
\* and pdf.getPage(1) is called
AfterGetDocument(t) ==
  /\ t.pc = "open"
  /\ IF t.file.failsAt = "open"
       THEN Catch(t, t.file.throws)
       ELSE /\ pageCount' = Some(t.file.numPages)
            /\ tasks' = Advance(t, "page")
            /\ lastOp' = Op("advance", Some(t), TRUE, 0)
            /\ UNCHANGED <<renderedImage, pdfName, isRendering, renderError,
                           zoomLevel, selections, envFaulty>>
  /\ UNCHANGED cachedPdfjs

\* await pdf.getPage(1) settles; on success the canvas is created:
\* if (!context) throw new Error("Unable to create canvas context ..."),
\* else page.render(renderContext) is called
AfterGetPage(t) ==
  /\ t.pc = "page"
  /\ IF t.file.failsAt = "page" \/ t.file.numPages < 1
       THEN Catch(t, t.file.throws)
       ELSE \E context \in (IF envFaulty THEN BOOLEAN ELSE {TRUE}) :
              IF ~context
                THEN Catch(t, Err(CanvasContextMessage))
                ELSE /\ tasks' = Advance(t, "render")
                     /\ lastOp' = Op("advance", Some(t), TRUE, 0)
                     /\ UNCHANGED <<uiState, selections, envFaulty>>
  /\ UNCHANGED cachedPdfjs

\* AfterRender that stores the image only when there is none yet
AfterRender_KeepsOldImage(t) ==
  /\ t.pc = "render"
  /\ IF t.file.failsAt = "render"
       THEN Catch(t, t.file.throws)
       ELSE /\ renderedImage' = IF renderedImage = Null
                                  THEN Some(DataUrl(t.file)) ELSE renderedImage
            /\ isRendering' = FALSE
            /\ tasks' = tasks \ {t}
            /\ lastOp' = Op("settled", Some(t), TRUE, 0)
            /\ UNCHANGED <<pdfName, renderError, pageCount, zoomLevel,
                           selections, envFaulty>>
  /\ UNCHANGED cachedPdfjs

\* await page.render(...).promise settles; on success
\* setRenderedImage(canvas.toDataURL(...)) and finally setIsRendering(false)
AfterRender(t) ==
  /\ t.pc = "render"
  /\ IF t.file.failsAt = "render"
       THEN Catch(t, t.file.throws)
       ELSE /\ renderedImage' = Some(DataUrl(t.file))
            /\ isRendering' = FALSE
            /\ tasks' = tasks \ {t}
            /\ lastOp' = Op("settled", Some(t), TRUE, 0)
            /\ UNCHANGED <<pdfName, renderError, pageCount, zoomLevel,
                           selections, envFaulty>>
  /\ UNCHANGED cachedPdfjs

PipelineStep ==
  \E t \in tasks :
    \/ AfterArrayBuffer(t)
    \/ AfterLoadPdfjs(t)
    \/ AfterGetDocument(t)
    \/ AfterGetPage(t)
    \/ AfterRender(t)

----------------------------------------------------------------------------
(* Zoom handlers.  Each runs only from its button, which the component    *)
(* renders disabled while there is no preview or the bound is reached.   *)

\* const hasPreview = !!renderedImage
hasPreview == renderedImage # Null

\* disabled={!hasPreview || zoomLevel <= 0.8}
ZoomOutDisabled == ~hasPreview \/ zoomLevel <= ZoomMin

\* disabled={!hasPreview || zoomLevel >= 1.8}
ZoomInDisabled == ~hasPreview \/ zoomLevel >= ZoomMax

\* disabled={!hasPreview}
ZoomResetDisabled == ~hasPreview

\* (value) => Number(Math.max(0.8, value - 0.1).toFixed(2))
ZoomOutUpdater(difference) == ToFixed2(Max(ZoomMin, difference))

\* ZoomInUpdater without the toFixed(2) rounding
ZoomInUpdater_NoRounding(sum) == Min(ZoomMax, sum)

\* (value) => Number(Math.min(1.8, value + 0.1).toFixed(2))
ZoomInUpdater(sum) == ToFixed2(Min(ZoomMax, sum))

ZoomFrame == UNCHANGED <<renderedImage, pdfName, isRendering, renderError,
                         pageCount, cachedPdfjs, tasks, selections, envFaulty>>

HandleZoomOut ==
  /\ ~ZoomOutDisabled
  /\ \E d \in FloatSum(zoomLevel, 0 - ZoomStep) : zoomLevel' = ZoomOutUpdater(d)
  /\ lastOp' = Op("zoomOut", Null, TRUE, zoomLevel)
  /\ ZoomFrame

HandleZoomIn ==
  /\ ~ZoomInDisabled
  /\ \E s \in FloatSum(zoomLevel, ZoomStep) : zoomLevel' = ZoomInUpdater(s)
  /\ lastOp' = Op("zoomIn", Null, TRUE, zoomLevel)
  /\ ZoomFrame

\* HandleZoomReset that also drops the preview to force a fresh render
HandleZoomReset_ClearsPreview ==
  /\ ~ZoomResetDisabled
  /\ zoomLevel' = ZoomDefault
  /\ renderedImage' = Null
  /\ lastOp' = Op("zoomReset", Null, TRUE, zoomLevel)
  /\ UNCHANGED <<pdfName, isRendering, renderError, pageCount, cachedPdfjs,
                 tasks, selections, envFaulty>>

HandleZoomReset ==
  /\ ~ZoomResetDisabled
  /\ zoomLevel' = ZoomDefault
  /\ lastOp' = Op("zoomReset", Null, TRUE, zoomLevel)
  /\ ZoomFrame

----------------------------------------------------------------------------
(* The platform: a module fetch or a canvas that was failing recovers.      *)
(* While envFaulty holds each platform call may still succeed or fail, so  *)
(* every finite sequence of outcomes occurs; afterwards they all succeed.  *)

EnvRecovers ==
  /\ envFaulty
  /\ envFaulty' = FALSE
  /\ lastOp' = Op("env", Null, TRUE, 0)
  /\ UNCHANGED <<uiState, cachedPdfjs, tasks, selections>>

Next ==
  \/ HandleNoFile
  \/ HandleFileChange
  \/ PipelineStep
  \/ ImportSettles
  \/ HandleZoomOut
  \/ HandleZoomIn
  \/ HandleZoomReset
  \/ EnvRecovers

Spec == Init /\ [][Next]_vars


----------------------------------------------------------------------------
(* Properties *)

\* what a pipeline in flight is, without its history fields
TaskView(ts) == { <<t.id, t.file, t.pc>> : t \in ts }

Settled == lastOp.op = "settled"
SettledTask == lastOp.task[1]
FileA == File("a.pdf", PdfMime, 1, "none", NoThrow)
FileB == File("b.pdf", PdfMime, 2, "none", NoThrow)

\* C1: a selection whose type is not application/pdf, in any state (also
\* with a render in flight), sets renderError to the fixed message, sets
\* renderedImage, pdfName and pageCount to null and starts no pipeline; no
\* pipeline ever runs for a file that is not a PDF, so none sets its image.
C1_NonPdfRejected ==
  [][lastOp'.op = "nonPdf" =>
       /\ renderError' = Some(InvalidTypeMessage)
       /\ renderedImage' = Null
       /\ pdfName' = Null
       /\ pageCount' = Null
       /\ TaskView(tasks') = TaskView(tasks)
       /\ \A t \in tasks' : t.file.type = PdfMime]_vars

C1_Witness ==
  /\ lastOp.op = "nonPdf"
  /\ tasks # {}
  /\ renderError = Some(InvalidTypeMessage)

\* C2: zoomLevel is always within [0.8, 1.8]; a zoom-in yields the previous
\* value plus 0.1, capped at 1.8; a zoom-out yields the previous value
\* minus 0.1, floored at 0.8.
C2_ZoomBounded ==
  /\ zoomLevel \in ZoomMin..ZoomMax
  /\ lastOp.op = "zoomIn" => zoomLevel = Min(ZoomMax, lastOp.prevZoom + ZoomStep)
  /\ lastOp.op = "zoomOut" => zoomLevel = Max(ZoomMin, lastOp.prevZoom - ZoomStep)

C2_Witness ==
  /\ lastOp.op = "zoomIn"
  /\ lastOp.prevZoom = ZoomMax - ZoomStep
  /\ zoomLevel = ZoomMax
  /\ selections = 2

\* C3: zoom reset sets zoomLevel to exactly 1.0 whatever it was, and leaves
\* renderedImage, pdfName, pageCount, renderError and isRendering unchanged.
C3_ZoomResetFrame ==
  [][lastOp'.op = "zoomReset" =>
       /\ zoomLevel' = ZoomDefault
       /\ UNCHANGED <<renderedImage, pdfName, pageCount, renderError,
                      isRendering>>]_vars

C3_Witness ==
  /\ lastOp.op = "zoomReset"
  /\ lastOp.prevZoom = ZoomMax
  /\ zoomLevel = ZoomDefault
  /\ hasPreview
  /\ isRendering

\* C4: when the pipeline of an accepted PDF that no other selection
\* overlapped settles: after success pageCount >= 1 and renderedImage is
\* non-null; after a failure renderedImage and pageCount are null and
\* renderError is a non-empty message, whatever was thrown.
C4_RenderOutcome ==
  (Settled /\ SettledTask.alone) =>
    IF lastOp.ok
      THEN /\ pageCount # Null
           /\ pageCount[1] >= 1
           /\ renderedImage # Null
      ELSE /\ renderedImage = Null
           /\ pageCount = Null
           /\ renderError # Null
           /\ renderError[1] # ""

\* C5: when a PDF uploaded over an earlier successful render (whose
\* pipeline had finished) renders successfully in turn, pdfName,
\* renderedImage and pageCount are all those of the second file.
C5_SecondUploadReplaces ==
  (/\ Settled
   /\ lastOp.ok
   /\ SettledTask.alone
   /\ SettledTask.prevImage # Null) =>
     /\ pdfName = Some(SettledTask.file.name)
     /\ renderedImage = Some(DataUrl(SettledTask.file))
     /\ pageCount = Some(SettledTask.file.numPages)

C5_Witness ==
  /\ Settled
  /\ lastOp.ok
  /\ SettledTask.alone
  /\ SettledTask.prevImage = Some(DataUrl(FileA))
  /\ SettledTask.file = FileB
  /\ renderedImage = Some(DataUrl(FileB))

\* C6: from the moment a PDF selection is accepted until its own render
\* succeeds renderedImage is null (no other selection intervening), so a
\* non-null renderedImage is never shown with the pdfName of another file.
C6_ImageInvalidatedOnUpload ==
  \A t \in tasks : t.alone => renderedImage = Null

\* C7: right after a PDF selection is accepted, before any awaited call of
\* its pipeline has settled, zoomLevel is 1.0, renderError is null,
\* isRendering is true and pdfName is the selected file's name.
C7_AcceptResets ==
  lastOp.op = "accept" =>
    /\ zoomLevel = ZoomDefault
    /\ renderError = Null
    /\ isRendering
    /\ pdfName = Some(lastOp.task[1].file.name)
    /\ \E t \in tasks : t.id = lastOp.task[1].id /\ t.pc = "read"

C7_Witness ==
  /\ lastOp.op = "accept"
  /\ renderedImage = Some(DataUrl(FileA))
  /\ pdfName = Some(FileB.name)
  /\ zoomLevel = ZoomDefault
  /\ isRendering

\* C8: accepting an upload aborts no render in flight, and a render that
\* succeeds stores its image whatever was uploaded since; so a pipeline that
\* finishes after a later upload's leaves its own image under the later name.
C8_NoCancellation ==
  [][/\ lastOp'.op = "accept" => TaskView(tasks) \subseteq TaskView(tasks')
     /\ (lastOp'.op = "settled" /\ lastOp'.ok) =>
          renderedImage' = Some(DataUrl(lastOp'.task[1].file))]_vars

C8_Witness ==
  /\ tasks = {}
  /\ Settled
  /\ lastOp.ok
  /\ SettledTask.file = FileA
  /\ pdfName = Some(FileB.name)
  /\ renderedImage = Some(DataUrl(FileA))
  /\ pageCount = Some(FileA.numPages)

\* C9: isRendering is true exactly when at least one render pipeline has
\* been started and has not yet completed.
C9_RenderingFlag == isRendering <=> tasks # {}

\* C10: no failure is fatal: the pipeline of a valid PDF, uploaded with the
\* platform working and overlapped by no other selection, succeeds with
\* renderedImage non-null and renderError null, whatever failed before it.
C10_RecoversAfterFailure ==
  (/\ Settled
   /\ SettledTask.file \in ValidPdfs
   /\ SettledTask.healthy
   /\ SettledTask.alone) =>
     /\ lastOp.ok
     /\ renderedImage # Null
     /\ renderError = Null

====
